---------------------------- MODULE Spec2Model ----------------------------
(***************************************************************************)
(* A model of json-comms.go: the three handlers of Tools (ReadJSON,        *)
(* WriteJSON, ErrorJSON) together with the parts of net/http and           *)
(* encoding/json they drive: http.MaxBytesReader, json.Decoder (its        *)
(* scanner, readValue and unmarshal into a struct) and json.Marshal.       *)
(*                                                                         *)
(* Bytes are one-character strings; a body is a run of `pre` spaces, the   *)
(* bytes of `core`, a run of `post` spaces, and the error `term` the       *)
(* stream's Read reports once all bytes are delivered (io.EOF normally).   *)
(***************************************************************************)
EXTENDS Integers, Sequences, FiniteSets, TLC

\* t:     the Tools value the handlers are called on
\* op:    the handler that has run ("none" before the call)
\* arg:   the arguments it was called with
\* r:     the request as the handler left it
\* data:  the destination (ReadJSON) or the value written (WriteJSON) afterwards
\* w:     the ResponseWriter
\* ret:   the error returned
\* dec:   the json.Decoder of ReadJSON as it was left
\* first: what ReadJSON's first Decode answered: its error and the decoder's scanp
\* call:  the arguments of the last call of WriteJSON
VARIABLES t, op, arg, r, data, w, ret, dec, first, call

vars == <<t, op, arg, r, data, w, ret, dec, first, call>>

(***************************************************************************)
(* Errors.  An error value is its dynamic type, the fixed leading text of  *)
(* Error(), the name and the number formatted after it, and the sentinels  *)
(* (io.EOF, io.ErrUnexpectedEOF) errors.Is finds in its chain.             *)
(***************************************************************************)
Err(type, text, name, num, is) ==
    [type |-> type, text |-> text, name |-> name, num |-> num, is |-> is]

NilErr == Err("nil", "", <<>>, 0, {})

IoEOF == Err("errorString", "EOF", <<>>, 0, {"io.EOF"})

IoErrUnexpectedEOF ==
    Err("errorString", "unexpected EOF", <<>>, 0, {"io.ErrUnexpectedEOF"})

\* the error of http.MaxBytesReader; Error() is "http: request body too large"
ErrBodyTooLarge == Err("MaxBytesError", "http: request body too large", <<>>, 0, {})

\* a transport failure of the body's Read that no case of the switch names
ErrConnReset == Err("OpError", "read: connection reset by peer", <<>>, 0, {})

\* a Read error that wraps both sentinels (fmt.Errorf with two %w verbs)
ErrWrappedEOFs ==
    Err("wrapErrors", "read body: ", <<>>, 0, {"io.ErrUnexpectedEOF", "io.EOF"})

SyntaxError(msg, offset) == Err("SyntaxError", msg, <<>>, offset, {})

UnmarshalTypeError(value, field, offset) ==
    Err("UnmarshalTypeError", value, field, offset, {})

InvalidUnmarshalError == Err("InvalidUnmarshalError", "json: Unmarshal(", <<>>, 0, {})

Quote(s) == <<"\"">> \o s \o <<"\"">>

\* fmt.Errorf("json: unknown field %q", key)
UnknownFieldError(key) == Err("errorString", "json: unknown field ", Quote(key), 0, {})

(***************************************************************************)
(* Bytes and bodies.                                                       *)
(***************************************************************************)
Min(a, b) == IF a < b THEN a ELSE b

Max(a, b) == IF a > b THEN a ELSE b

BodyLen(b) == b.pre + Len(b.core) + b.post

\* the i-th byte (1-based) of body b
ByteAt(b, i) ==
    IF i <= b.pre \/ i > b.pre + Len(b.core) THEN " " ELSE b.core[i - b.pre]

isSpace(c) == c = " "

Digits == {"0", "1", "2", "3", "4", "5", "6", "7", "8", "9"}

HexDigits == Digits \cup {"a", "b", "c", "d", "e", "f", "A", "B", "C", "D", "E", "F"}

(***************************************************************************)
(* encoding/json scanner: the step functions for objects, strings, numbers *)
(* without sign or fraction, and the literals true and false.  A scanner   *)
(* state is the name of its step function and its parseState stack.        *)
(***************************************************************************)
Scanner(step, ps) == [step |-> step, ps |-> ps]

ScanReset == Scanner("stateBeginValue", <<>>)

Out(s, code, msg) == [s |-> s, code |-> code, msg |-> msg]

ScanErr(s, context) == Out(Scanner("stateError", s.ps), "scanError", context)

SetTop(ps, v) == [ps EXCEPT ![Len(ps)] = v]

Pop(ps) == SubSeq(ps, 1, Len(ps) - 1)

stateEndTop(s, c) ==
    IF isSpace(c)
    THEN Out(s, "scanEnd", "")
    ELSE Out(Scanner("stateError", s.ps), "scanEnd", "after top-level value")

stateEndValue(s, c) ==
    IF Len(s.ps) = 0 THEN stateEndTop(Scanner("stateEndTop", s.ps), c)
    ELSE IF isSpace(c) THEN Out(Scanner("stateEndValue", s.ps), "scanSkipSpace", "")
    ELSE IF s.ps[Len(s.ps)] = "parseObjectKey"
    THEN IF c = ":"
         THEN Out(Scanner("stateBeginValue", SetTop(s.ps, "parseObjectValue")),
                  "scanObjectKey", "")
         ELSE ScanErr(s, "after object key")
    ELSE IF c = ","
         THEN Out(Scanner("stateBeginString", SetTop(s.ps, "parseObjectKey")),
                  "scanObjectValue", "")
         ELSE IF c = "}"
         THEN Out(Scanner(IF Len(s.ps) = 1 THEN "stateEndTop" ELSE "stateEndValue",
                          Pop(s.ps)), "scanEndObject", "")
         ELSE ScanErr(s, "after object key:value pair")

stateBeginString(s, c) ==
    IF isSpace(c) THEN Out(s, "scanSkipSpace", "")
    ELSE IF c = "\"" THEN Out(Scanner("stateInString", s.ps), "scanBeginLiteral", "")
    ELSE ScanErr(s, "looking for beginning of object key string")

stateBeginStringOrEmpty(s, c) ==
    IF isSpace(c) THEN Out(s, "scanSkipSpace", "")
    ELSE IF c = "}" THEN stateEndValue(Scanner(s.step, SetTop(s.ps, "parseObjectValue")), c)
    ELSE stateBeginString(s, c)

stateBeginValue(s, c) ==
    IF isSpace(c) THEN Out(s, "scanSkipSpace", "")
    ELSE IF c = "{"
    THEN Out(Scanner("stateBeginStringOrEmpty", Append(s.ps, "parseObjectKey")),
             "scanBeginObject", "")
    ELSE IF c = "\"" THEN Out(Scanner("stateInString", s.ps), "scanBeginLiteral", "")
    ELSE IF c = "0" THEN Out(Scanner("state0", s.ps), "scanBeginLiteral", "")
    ELSE IF c = "t" THEN Out(Scanner("stateT", s.ps), "scanBeginLiteral", "")
    ELSE IF c = "f" THEN Out(Scanner("stateF", s.ps), "scanBeginLiteral", "")
    ELSE IF c \in Digits THEN Out(Scanner("state1", s.ps), "scanBeginLiteral", "")
    ELSE ScanErr(s, "looking for beginning of value")

stateInString(s, c) ==
    IF c = "\"" THEN Out(Scanner("stateEndValue", s.ps), "scanContinue", "")
    ELSE IF c = "\\" THEN Out(Scanner("stateInStringEsc", s.ps), "scanContinue", "")
    ELSE Out(s, "scanContinue", "")

stateInStringEsc(s, c) ==
    IF c \in {"b", "f", "n", "r", "t", "\\", "/", "\""}
    THEN Out(Scanner("stateInString", s.ps), "scanContinue", "")
    ELSE IF c = "u" THEN Out(Scanner("stateInStringEscU", s.ps), "scanContinue", "")
    ELSE ScanErr(s, "in string escape code")

\* stateInStringEscU, ...U1, ...U12, ...U123: four hexadecimal digits
stateInStringEscU(s, c, next) ==
    IF c \in HexDigits THEN Out(Scanner(next, s.ps), "scanContinue", "")
    ELSE ScanErr(s, "in \\u hexadecimal character escape")

stateE0(s, c) ==
    IF c \in Digits THEN Out(Scanner("stateE0", s.ps), "scanContinue", "")
    ELSE stateEndValue(s, c)

stateESign(s, c) ==
    IF c \in Digits THEN Out(Scanner("stateE0", s.ps), "scanContinue", "")
    ELSE ScanErr(s, "in exponent of numeric literal")

stateE(s, c) ==
    IF c \in {"+", "-"} THEN Out(Scanner("stateESign", s.ps), "scanContinue", "")
    ELSE stateESign(s, c)

state0(s, c) ==
    IF c \in {"e", "E"} THEN Out(Scanner("stateE", s.ps), "scanContinue", "")
    ELSE stateEndValue(s, c)

state1(s, c) ==
    IF c \in Digits THEN Out(Scanner("state1", s.ps), "scanContinue", "")
    ELSE state0(s, c)

\* stateT, stateTr, stateTru and stateF, stateFa, stateFal, stateFals
stateLiteral(s, c, want, next, context) ==
    IF c = want THEN Out(Scanner(next, s.ps), "scanContinue", "")
    ELSE ScanErr(s, context)

\* s.step(s, c)
Step(s, c) ==
    CASE s.step = "stateBeginValue" -> stateBeginValue(s, c)
      [] s.step = "stateBeginStringOrEmpty" -> stateBeginStringOrEmpty(s, c)
      [] s.step = "stateBeginString" -> stateBeginString(s, c)
      [] s.step = "stateEndValue" -> stateEndValue(s, c)
      [] s.step = "stateEndTop" -> stateEndTop(s, c)
      [] s.step = "stateInString" -> stateInString(s, c)
      [] s.step = "stateInStringEsc" -> stateInStringEsc(s, c)
      [] s.step = "stateInStringEscU" -> stateInStringEscU(s, c, "stateInStringEscU1")
      [] s.step = "stateInStringEscU1" -> stateInStringEscU(s, c, "stateInStringEscU12")
      [] s.step = "stateInStringEscU12" -> stateInStringEscU(s, c, "stateInStringEscU123")
      [] s.step = "stateInStringEscU123" -> stateInStringEscU(s, c, "stateInString")
      [] s.step = "state0" -> state0(s, c)
      [] s.step = "state1" -> state1(s, c)
      [] s.step = "stateE" -> stateE(s, c)
      [] s.step = "stateESign" -> stateESign(s, c)
      [] s.step = "stateE0" -> stateE0(s, c)
      [] s.step = "stateT" -> stateLiteral(s, c, "r", "stateTr", "in literal true (expecting 'r')")
      [] s.step = "stateTr" -> stateLiteral(s, c, "u", "stateTru", "in literal true (expecting 'u')")
      [] s.step = "stateTru" -> stateLiteral(s, c, "e", "stateEndValue", "in literal true (expecting 'e')")
      [] s.step = "stateF" -> stateLiteral(s, c, "a", "stateFa", "in literal false (expecting 'a')")
      [] s.step = "stateFa" -> stateLiteral(s, c, "l", "stateFal", "in literal false (expecting 'l')")
      [] s.step = "stateFal" -> stateLiteral(s, c, "s", "stateFals", "in literal false (expecting 's')")
      [] s.step = "stateFals" -> stateLiteral(s, c, "e", "stateEndValue", "in literal false (expecting 'e')")
      [] OTHER -> Out(s, "scanError", "")


(***************************************************************************)
(* http.MaxBytesReader(w, body, n): the stream cut to its first n bytes    *)
(* (none when n is negative); when the body holds more, the Read after     *)
(* the n-th byte reports the too-large error instead of the body's own     *)
(* terminal error.                                                         *)
(***************************************************************************)
\* a faulty variant: the body is not limited
MaxBytesReader_NoLimit(b, n) == b

MaxBytesReader(b, n) ==
    LET lim == Max(n, 0)
        pre == Min(b.pre, lim)
        ncore == Max(0, Min(Len(b.core), lim - b.pre))
        post == Max(0, Min(b.post, lim - b.pre - Len(b.core)))
    IN  [pre |-> pre, core |-> SubSeq(b.core, 1, ncore), post |-> post,
         term |-> IF BodyLen(b) > lim THEN ErrBodyTooLarge ELSE b.term]

(***************************************************************************)
(* json.Decoder.readValue.  ScanFrom steps the scanner over the bytes from *)
(* index i on and stops at the end of the value, at a syntax error, or     *)
(* when the stream has no more bytes.  Inside a run of spaces the scanner  *)
(* state does not change after the first one, so the run is crossed in one *)
(* step.                                                                   *)
(***************************************************************************)
RunEnd(b, i) ==
    IF i <= b.pre THEN b.pre
    ELSE IF i > b.pre + Len(b.core) THEN BodyLen(b)
    ELSE i

Scanned(kind, at, s, msg) == [kind |-> kind, at |-> at, s |-> s, msg |-> msg]

\* the object just closed was the top-level value
ClosesTop(o) == o.code = "scanEndObject" /\ stateEndValue(o.s, " ").code = "scanEnd"

RECURSIVE ScanFrom(_, _, _)
\* the scanner in state s has taken byte i and answered o
ScanByte(b, i, s, o) ==
    CASE o.code = "scanEnd" -> Scanned("end", i - 1, o.s, "")
      [] ClosesTop(o) -> Scanned("end", i, o.s, "")
      [] o.code = "scanError" -> Scanned("error", i, o.s, o.msg)
      [] OTHER -> ScanFrom(b, (IF o.code = "scanSkipSpace" /\ o.s = s THEN RunEnd(b, i) ELSE i) + 1,
                           o.s)

ScanFrom(b, i, s) ==
    IF i > BodyLen(b) THEN Scanned("exhausted", BodyLen(b), s, "")
    ELSE ScanByte(b, i, s, Step(s, ByteAt(b, i)))

\* a faulty variant: the bytes left in the buffer are not looked at
nonSpace_Never(b, scanp) == FALSE

\* nonSpace(dec.buf): the buffer holds the bytes after the last value read
nonSpace(b, scanp) ==
    \E i \in 1..Len(b.core) : i + b.pre > scanp /\ ~isSpace(b.core[i])

\* at io.EOF a value that only lacks its delimiter is complete
EndsAtEOF(s) == Step(s, " ").code = "scanEnd"

\* what readValue answers once the scan has stopped as res
ValueRead(b, scanp, res) ==
    CASE res.kind = "end" -> [n |-> res.at - scanp, err |-> NilErr, at |-> res.at]
      [] res.kind = "error" ->
            [n |-> 0, err |-> SyntaxError(res.msg, res.at), at |-> res.at]
      [] OTHER ->
            IF b.term = IoEOF
            THEN IF EndsAtEOF(res.s)
                 THEN [n |-> res.at - scanp, err |-> NilErr, at |-> res.at]
                 ELSE [n |-> 0, at |-> res.at,
                       err |-> IF nonSpace(b, scanp) THEN IoErrUnexpectedEOF ELSE IoEOF]
            ELSE [n |-> 0, err |-> b.term, at |-> res.at]

\* [n: the length of the next value, err, at: the last byte looked at]
readValue(b, scanp) == ValueRead(b, scanp, ScanFrom(b, scanp + 1, ScanReset))


(***************************************************************************)
(* Values.  A Go value of a destination field, and a parsed JSON value.    *)
(***************************************************************************)
Val(typ, n, str, bool) == [t |-> typ, n |-> n, s |-> str, b |-> bool]

NilVal == Val("nil", 0, <<>>, FALSE)

Num(n) == Val("number", n, <<>>, FALSE)

Str(chars) == Val("string", 0, chars, FALSE)

Bool(b) == Val("bool", 0, <<>>, b)

\* an unsupported value (a channel): json.Marshal fails on it
Chan == Val("chan", 0, <<>>, FALSE)

DigitVal(c) ==
    CASE c = "0" -> 0 [] c = "1" -> 1 [] c = "2" -> 2 [] c = "3" -> 3 [] c = "4" -> 4
      [] c = "5" -> 5 [] c = "6" -> 6 [] c = "7" -> 7 [] c = "8" -> 8 [] OTHER -> 9

RECURSIVE Atoi(_)
Atoi(lit) ==
    IF lit = <<>> THEN 0
    ELSE 10 * Atoi(SubSeq(lit, 1, Len(lit) - 1)) + DigitVal(lit[Len(lit)])

\* strconv.ParseInt(lit, 10, 64) succeeds on a run of digits
IsInt(lit) == lit # <<>> /\ \A i \in 1..Len(lit) : lit[i] \in Digits

(***************************************************************************)
(* decodeState: the value read by readValue is scanned once more and       *)
(* stored.  d is the value's bytes; an index is 1-based, so the index of a *)
(* literal's last byte is the Offset encoding/json reports for it.         *)
(***************************************************************************)
RECURSIVE SkipSpace(_, _)
SkipSpace(d, i) == IF i <= Len(d) /\ isSpace(d[i]) THEN SkipSpace(d, i + 1) ELSE i

\* the rune of a \uXXXX escape
Rune(hex) ==
    CASE hex = <<"0", "0", "3", "c">> -> "<"
      [] hex = <<"0", "0", "2", "2">> -> "\""
      [] OTHER -> "?"

\* unquote: d[i] is the byte after the opening quote
RECURSIVE Unquote(_, _, _)
Unquote(d, i, acc) ==
    IF d[i] = "\"" THEN [s |-> acc, next |-> i + 1]
    ELSE IF d[i] = "\\"
    THEN IF d[i + 1] = "u"
         THEN Unquote(d, i + 6, Append(acc, Rune(SubSeq(d, i + 2, i + 5))))
         ELSE Unquote(d, i + 2, Append(acc, d[i + 1]))
    ELSE Unquote(d, i + 1, Append(acc, d[i]))

\* rescanLiteral on a number: the run of digits, '.', 'e', 'E', '+', '-'
RECURSIVE NumberEnd(_, _)
NumberEnd(d, i) ==
    IF i <= Len(d) /\ d[i] \in Digits \cup {".", "e", "E", "+", "-"}
    THEN NumberEnd(d, i + 1)
    ELSE i

Node(typ, str, bool, members, start, next) ==
    [t |-> typ, s |-> str, b |-> bool, members |-> members, start |-> start, next |-> next]

RECURSIVE ParseValue(_, _)
RECURSIVE ParseMembers(_, _, _)
StringNode(j, u) == Node("string", u.s, FALSE, <<>>, j, u.next)

ObjectNode(j, ms) == Node("object", <<>>, FALSE, ms.members, j, ms.next)

NumberNode(d, j, e) == Node("number", SubSeq(d, j, e - 1), FALSE, <<>>, j, e)

\* the value that starts at d[j]; next is the index after it
ValueAt(d, j) ==
    CASE d[j] = "{" -> ObjectNode(j, ParseMembers(d, j + 1, <<>>))
      [] d[j] = "\"" -> StringNode(j, Unquote(d, j + 1, <<>>))
      [] d[j] = "t" -> Node("bool", <<>>, TRUE, <<>>, j, j + 4)
      [] d[j] = "f" -> Node("bool", <<>>, FALSE, <<>>, j, j + 5)
      [] OTHER -> NumberNode(d, j, NumberEnd(d, j))

ParseValue(d, i) == ValueAt(d, SkipSpace(d, i))

\* after a member's value: ',' and the next member, or '}'
AfterMember(d, acc, sep) ==
    IF d[sep] = "," THEN ParseMembers(d, sep + 1, acc)
    ELSE [members |-> acc, next |-> sep + 1]

MemberValue(d, acc, key, v) ==
    AfterMember(d, Append(acc, [key |-> key, v |-> v]), SkipSpace(d, v.next))

MemberKey(d, acc, k) == MemberValue(d, acc, k.s, ParseValue(d, SkipSpace(d, k.next) + 1))

MembersAt(d, j, acc) ==
    IF d[j] = "}" THEN [members |-> acc, next |-> j + 1]
    ELSE MemberKey(d, acc, Unquote(d, j + 1, <<>>))

\* the members of an object, d[i] being after '{' or ','
ParseMembers(d, i, acc) == MembersAt(d, SkipSpace(d, i), acc)

(***************************************************************************)
(* Destinations.  A destination is a pointer (or not) to a struct, given   *)
(* by its fields' JSON names and Go types, and the fields' values.         *)
(***************************************************************************)
Field(name, typ) == [name |-> name, typ |-> typ]

Zero(typ) ==
    CASE typ = "int" -> Num(0)
      [] typ = "string" -> Str(<<>>)
      [] typ = "bool" -> Bool(FALSE)
      [] OTHER -> NilVal

Dest(ptr, shape) ==
    [ptr |-> ptr, shape |-> shape, val |-> [i \in 1..Len(shape) |-> Zero(shape[i].typ)]]

\* the target of the second Decode, &struct{}{}
EmptyStruct == Dest(TRUE, <<>>)

UpperCase == <<"A", "B", "C", "D", "E", "F", "G", "H", "I", "J", "K", "L", "M",
               "N", "O", "P", "Q", "R", "S", "T", "U", "V", "W", "X", "Y", "Z">>

LowerCase == <<"a", "b", "c", "d", "e", "f", "g", "h", "i", "j", "k", "l", "m",
               "n", "o", "p", "q", "r", "s", "t", "u", "v", "w", "x", "y", "z">>

ToLowerChar(c) ==
    IF \E i \in 1..26 : UpperCase[i] = c
    THEN LowerCase[CHOOSE i \in 1..26 : UpperCase[i] = c]
    ELSE c

\* strings.ToLower
ToLower(str) == [i \in 1..Len(str) |-> ToLowerChar(str[i])]

\* a faulty variant: keys match field names exactly only
FieldIndex_ExactOnly(shape, key) ==
    IF \E i \in 1..Len(shape) : shape[i].name = key
    THEN CHOOSE i \in 1..Len(shape) : shape[i].name = key
    ELSE 0

\* the field a key names: an exact match first, then a case-insensitive one; 0 if none
FieldIndex(shape, key) ==
    IF \E i \in 1..Len(shape) : shape[i].name = key
    THEN CHOOSE i \in 1..Len(shape) : shape[i].name = key
    ELSE IF \E i \in 1..Len(shape) : ToLower(shape[i].name) = ToLower(key)
    THEN CHOOSE i \in 1..Len(shape) : ToLower(shape[i].name) = ToLower(key)
    ELSE 0

\* the Go value an interface{} field receives
Interface(node) ==
    CASE node.t = "number" -> IF IsInt(node.s) THEN Num(Atoi(node.s))
                              ELSE Val("float", 0, node.s, FALSE)
      [] node.t = "string" -> Str(node.s)
      [] node.t = "bool" -> Bool(node.b)
      [] OTHER -> Val("map", 0, <<>>, FALSE)

\* literalStore and object into one field: [ok, v, value: the JSON type reported]
StoreField(typ, node) ==
    CASE typ = "any" -> [ok |-> TRUE, v |-> Interface(node), value |-> ""]
      [] typ = "int" /\ node.t = "number" ->
            IF IsInt(node.s) THEN [ok |-> TRUE, v |-> Num(Atoi(node.s)), value |-> ""]
            ELSE [ok |-> FALSE, v |-> NilVal, value |-> "number "]
      [] typ = "string" /\ node.t = "string" -> [ok |-> TRUE, v |-> Str(node.s), value |-> ""]
      [] typ = "bool" /\ node.t = "bool" -> [ok |-> TRUE, v |-> Bool(node.b), value |-> ""]
      [] OTHER -> [ok |-> FALSE, v |-> NilVal, value |-> node.t]

\* Offset of a type error: after a literal, or after the '{' of an object
ErrOffset(node, base) == base + (IF node.t = "object" THEN node.start ELSE node.next - 1)

\* decodeState.saveError keeps the first error
SaveError(saved, err) == IF saved = NilErr THEN err ELSE saved

RECURSIVE StoreMembers(_, _, _, _, _, _, _)
\* member m names field f, and storing its value answered st
StoreInto(members, k, shape, val, saved, strict, base, m, f, st) ==
    IF st.ok
    THEN StoreMembers(members, k + 1, shape, [val EXCEPT ![f] = st.v], saved, strict, base)
    ELSE StoreMembers(members, k + 1, shape, val,
                      SaveError(saved, UnmarshalTypeError(st.value, shape[f].name,
                                                          ErrOffset(m.v, base))),
                      strict, base)

\* member m names field f of the destination, or none (f = 0)
StoreMember(members, k, shape, val, saved, strict, base, m, f) ==
    IF f = 0
    THEN StoreMembers(members, k + 1, shape, val,
                      IF strict THEN SaveError(saved, UnknownFieldError(m.key)) ELSE saved,
                      strict, base)
    ELSE StoreInto(members, k, shape, val, saved, strict, base, m, f,
                   StoreField(shape[f].typ, m.v))

\* decodeState.object: the members in input order
StoreMembers(members, k, shape, val, saved, strict, base) ==
    IF k > Len(members) THEN [val |-> val, err |-> saved]
    ELSE StoreMember(members, k, shape, val, saved, strict, base, members[k],
                     FieldIndex(shape, members[k].key))

Stored(v, st) == [v |-> [v EXCEPT !.val = st.val], err |-> st.err]

\* decodeState.value of the parsed node into the struct v points to
StoreValue(node, base, v, strict) ==
    IF node.t = "object"
    THEN Stored(v, StoreMembers(node.members, 1, v.shape, v.val, NilErr, strict, base))
    ELSE [v |-> v, err |-> UnmarshalTypeError(node.t, <<>>, ErrOffset(node, base))]

\* decodeState.unmarshal of the value bytes d into v; base bytes of the value precede d
Unmarshal(d, base, v, strict) ==
    IF ~v.ptr THEN [v |-> v, err |-> InvalidUnmarshalError]
    ELSE StoreValue(ParseValue(d, 1), base, v, strict)

(***************************************************************************)
(* json.Decoder: scanp counts the bytes of the values read so far, err is  *)
(* the sticky error of readValue, calls counts the Decode calls and at is  *)
(* the last byte of the stream the decoder has looked at.                  *)
(***************************************************************************)
NewDecoder ==
    [scanp |-> 0, err |-> NilErr, calls |-> 0, at |-> 0, disallowUnknownFields |-> FALSE]

\* a faulty variant: the decoder stays lenient
DisallowUnknownFields_Ignored(dc) == dc

DisallowUnknownFields(dc) == [dc EXCEPT !.disallowUnknownFields = TRUE]

Decoded(dc, um) == [dec |-> dc, v |-> um.v, err |-> um.err]

\* Decode after readValue has answered rv
DecodeValue(b, dc, v, rv) ==
    IF rv.err # NilErr
    THEN [dec |-> [dc EXCEPT !.err = rv.err, !.calls = @ + 1, !.at = rv.at],
          v |-> v, err |-> rv.err]
    ELSE Decoded([dc EXCEPT !.scanp = @ + rv.n, !.calls = @ + 1, !.at = rv.at],
                 Unmarshal(SubSeq(b.core, Max(1, dc.scanp + 1 - b.pre), dc.scanp + rv.n - b.pre),
                           Max(0, b.pre - dc.scanp), v, dc.disallowUnknownFields))

Decode(b, dc, v) ==
    IF dc.err # NilErr THEN [dec |-> [dc EXCEPT !.calls = @ + 1], v |-> v, err |-> dc.err]
    ELSE DecodeValue(b, dc, v, readValue(b, dc.scanp))

(***************************************************************************)
(* ReadJSON.                                                               *)
(***************************************************************************)
ApplicationJSON == <<"a", "p", "p", "l", "i", "c", "a", "t", "i", "o", "n", "/", "j", "s", "o", "n">>

\* errors.New and fmt.Errorf of ReadJSON: the text, then the formatted name and number
NewError(text, name, num) == Err("error", text, name, num, {})

ErrWrongContentType == NewError("the Content-Type header is not application/json", <<>>, 0)

ErrMultipleValues == NewError("body must only contain a single JSON value", <<>>, 0)

\* one megabyte
DefaultMaxBytes == 1024 * 1024

\* a faulty variant: io.EOF is tested before io.ErrUnexpectedEOF
DecodeError_EOFFirst(err, maxBytes) ==
    CASE err.type = "SyntaxError" ->
            NewError("body contains badly-formed JSON (at character %d)", <<>>, err.num)
      [] "io.EOF" \in err.is ->
            NewError("body must not be empty", <<>>, 0)
      [] "io.ErrUnexpectedEOF" \in err.is ->
            NewError("body contains badly-formed JSON", <<>>, 0)
      [] err.type = "UnmarshalTypeError" ->
            NewError("body contains incorrect JSON type for field %q at offset %d",
                     Quote(err.name), err.num)
      [] err.text = "json: unknown field " ->
            NewError("body contains unknown key %s", err.name, 0)
      [] err.text = "http: request body too large" ->
            NewError("body must not be larger than %d bytes", <<>>, maxBytes)
      [] err.type = "InvalidUnmarshalError" ->
            NewError("error unmarshalling json: %s", <<>>, 0)
      [] OTHER -> err

\* the switch on the error of the first Decode
DecodeError(err, maxBytes) ==
    CASE err.type = "SyntaxError" ->
            NewError("body contains badly-formed JSON (at character %d)", <<>>, err.num)
      [] "io.ErrUnexpectedEOF" \in err.is ->
            NewError("body contains badly-formed JSON", <<>>, 0)
      [] err.type = "UnmarshalTypeError" ->
            NewError("body contains incorrect JSON type for field %q at offset %d",
                     Quote(err.name), err.num)
      [] "io.EOF" \in err.is ->
            NewError("body must not be empty", <<>>, 0)
      [] err.text = "json: unknown field " ->
            NewError("body contains unknown key %s", err.name, 0)
      [] err.text = "http: request body too large" ->
            NewError("body must not be larger than %d bytes", <<>>, maxBytes)
      [] err.type = "InvalidUnmarshalError" ->
            NewError("error unmarshalling json: %s", <<>>, 0)
      [] OTHER -> err

\* what a Decode answered, as far as ReadJSON's caller can tell
Answer(d) == [err |-> d.err, scanp |-> d.dec.scanp]

NoAnswer == [err |-> NilErr, scanp |-> 0]

Result(req, v, err, dc, d1) ==
    [r |-> req, data |-> v, ret |-> err, dec |-> dc, first |-> d1]

\* a faulty variant: the answer of the second Decode is not looked at
SingleValue_Unchecked(req, d1, d2) == Result(req, d1.v, NilErr, d2.dec, Answer(d1))

\* lines 134-139: the second Decode has answered d2
SingleValue(req, d1, d2) ==
    IF d2.err # IoEOF THEN Result(req, d1.v, ErrMultipleValues, d2.dec, Answer(d1))
    ELSE Result(req, d1.v, NilErr, d2.dec, Answer(d1))

\* lines 100-139: the first Decode has answered d1
Decoded1(req, maxBytes, d1) ==
    IF d1.err # NilErr
    THEN Result(req, d1.v, DecodeError(d1.err, maxBytes), d1.dec, Answer(d1))
    ELSE SingleValue(req, d1, Decode(req.Body, d1.dec, EmptyStruct))

\* lines 89-100: the body is wrapped, the decoder made and the first value decoded
Limited(tools, req, v, maxBytes) ==
    Decoded1(req, maxBytes,
             Decode(req.Body,
                    IF ~tools.AllowUnknownFields THEN DisallowUnknownFields(NewDecoder)
                    ELSE NewDecoder,
                    v))

WithBody(req, body) == [req EXCEPT !.Body = body, !.wrapped = TRUE]

WithLimit(tools, req, v, maxBytes) ==
    Limited(tools, WithBody(req, MaxBytesReader(req.Body, maxBytes)), v, maxBytes)

\* a faulty variant: a Content-Type that starts with application/json is accepted
ReadJSON_PrefixMatch(tools, req, v) ==
    IF /\ req.ContentType # <<>>
       /\ SubSeq(ToLower(req.ContentType), 1,
                 Min(Len(req.ContentType), Len(ApplicationJSON))) # ApplicationJSON
    THEN Result(req, v, ErrWrongContentType, NewDecoder, NoAnswer)
    ELSE WithLimit(tools, req, v,
                   IF tools.MaxJSONSize # 0 THEN tools.MaxJSONSize ELSE DefaultMaxBytes)

\* the result: the request and the destination afterwards, the error returned, the
\* decoder as it was left and the error of the first Decode
ReadJSON(tools, req, v) ==
    IF req.ContentType # <<>> /\ ToLower(req.ContentType) # ApplicationJSON
    THEN Result(req, v, ErrWrongContentType, NewDecoder, NoAnswer)
    ELSE WithLimit(tools, req, v,
                   IF tools.MaxJSONSize # 0 THEN tools.MaxJSONSize ELSE DefaultMaxBytes)

(***************************************************************************)
(* ResponseWriter: the header map, the status line and the header as they  *)
(* were when WriteHeader was called, the bytes handed to Write, the bytes  *)
(* the transport took of them, and the calls in the order they were made.  *)
(***************************************************************************)
NoHeader == [k \in {} |-> <<>>]

NewResponseWriter ==
    [Header |-> NoHeader, status |-> 0, sent |-> NoHeader, handed |-> <<>>, body |-> <<>>,
     log |-> <<>>]

\* textproto.CanonicalMIMEHeaderKey on the keys used here
CanonicalMIMEHeaderKey(k) == IF k = "content-type" THEN "Content-Type" ELSE k

\* w.Header()[key] = value
HeaderAssign(rw, key, value) ==
    [rw EXCEPT !.Header = (key :> value) @@ @, !.log = Append(@, <<"Header", key>>)]

\* w.Header().Set(key, value)
HeaderSet(rw, key, value) ==
    [rw EXCEPT !.Header = (CanonicalMIMEHeaderKey(key) :> <<value>>) @@ @,
               !.log = Append(@, <<"Set", CanonicalMIMEHeaderKey(key)>>)]

\* w.Header().Get(key)
HeaderGet(h, key) ==
    IF CanonicalMIMEHeaderKey(key) \in DOMAIN h /\ h[CanonicalMIMEHeaderKey(key)] # <<>>
    THEN h[CanonicalMIMEHeaderKey(key)][1]
    ELSE ""

\* w.WriteHeader(status): the first call fixes the status line and the header
WriteHeader(rw, status) ==
    IF rw.status # 0 THEN [rw EXCEPT !.log = Append(@, <<"WriteHeader", "">>)]
    ELSE [rw EXCEPT !.status = status, !.sent = rw.Header,
                    !.log = Append(@, <<"WriteHeader", "">>)]

\* w.Write(out): the transport takes the first n bytes; n < Len(out) is a failed write
Write(rw, out, n) ==
    LET h == IF rw.status = 0 THEN [rw EXCEPT !.status = 200, !.sent = rw.Header] ELSE rw
    IN  [h EXCEPT !.handed = @ \o out, !.body = @ \o SubSeq(out, 1, n),
                  !.log = Append(@, <<"Write", "">>)]

(***************************************************************************)
(* json.Marshal of a JSONResponse.                                         *)
(***************************************************************************)
JSONResponse(error, message, payload) ==
    [Error |-> error, Message |-> message, Data |-> payload]

\* the fields of JSONResponse by their json tags
JSONResponseShape ==
    <<Field(<<"e", "r", "r", "o", "r">>, "bool"),
      Field(<<"m", "e", "s", "s", "a", "g", "e">>, "string"),
      Field(<<"d", "a", "t", "a">>, "any")>>

RECURSIVE Itoa(_)
Itoa(n) ==
    LET d == <<"0", "1", "2", "3", "4", "5", "6", "7", "8", "9">>[(n % 10) + 1]
    IN  IF n < 10 THEN <<d>> ELSE Append(Itoa(n \div 10), d)

\* the bytes of a JSON string: '"' and '\' are escaped, '<' is written \\u003c
RECURSIVE Escape(_)
Escape(str) ==
    IF str = <<>> THEN <<>>
    ELSE (CASE Head(str) = "\"" -> <<"\\", "\"">>
            [] Head(str) = "\\" -> <<"\\", "\\">>
            [] Head(str) = "<" -> <<"\\", "u", "0", "0", "3", "c">>
            [] OTHER -> <<Head(str)>>) \o Escape(Tail(str))

Encodable(v) == v.t \in {"nil", "number", "string", "bool"}

Encode(v) ==
    CASE v.t = "number" -> Itoa(v.n)
      [] v.t = "string" -> Quote(Escape(v.s))
      [] v.t = "bool" -> IF v.b THEN <<"t", "r", "u", "e">> ELSE <<"f", "a", "l", "s", "e">>
      [] OTHER -> <<"n", "u", "l", "l">>

ErrUnsupportedType == Err("UnsupportedTypeError", "json: unsupported type: ", <<>>, 0, {})

\* json.Marshal(data): [out, err]; data omitempty leaves a nil Data out
Marshal(v) ==
    IF ~Encodable(v.Data) THEN [out |-> <<>>, err |-> ErrUnsupportedType]
    ELSE [out |-> <<"{">> \o Quote(<<"e", "r", "r", "o", "r">>) \o <<":">> \o Encode(Bool(v.Error))
                  \o <<",">> \o Quote(<<"m", "e", "s", "s", "a", "g", "e">>) \o <<":">> \o Encode(Str(v.Message))
                  \o (IF v.Data = NilVal THEN <<>>
                      ELSE <<",">> \o Quote(<<"d", "a", "t", "a">>) \o <<":">> \o Encode(v.Data))
                  \o <<"}">>,
          err |-> NilErr]

(***************************************************************************)
(* WriteJSON and ErrorJSON.  headers is the variadic parameter, order the  *)
(* order in which range visits the keys of headers[0], n the number of     *)
(* bytes the transport takes from the body.                                *)
(***************************************************************************)
RECURSIVE CopyHeader(_, _, _)
CopyHeader(rw, h, order) ==
    IF order = <<>> THEN rw
    ELSE CopyHeader(HeaderAssign(rw, Head(order), h[Head(order)]), h, Tail(order))

\* a faulty variant: the status is written before the headers are set
Respond_StatusFirst(rw, status, out, headers, order, n) ==
    Write(HeaderSet(IF Len(headers) > 0
                    THEN CopyHeader(WriteHeader(rw, status), headers[1], order)
                    ELSE WriteHeader(rw, status),
                    "Content-Type", "application/json"),
          out, Min(n, Len(out)))

\* lines 149-161: the value has been serialized to out
Respond(rw, status, out, headers, order, n) ==
    Write(WriteHeader(HeaderSet(IF Len(headers) > 0 THEN CopyHeader(rw, headers[1], order)
                                ELSE rw,
                                "Content-Type", "application/json"),
                      status),
          out, Min(n, Len(out)))

\* a faulty variant: the headers are copied before the value is serialized
Marshalled_HeadersFirst(rw, status, m, headers, order, n) ==
    IF m.err # NilErr
    THEN [w |-> IF Len(headers) > 0 THEN CopyHeader(rw, headers[1], order) ELSE rw,
          ret |-> m.err]
    ELSE [w |-> Respond(rw, status, m.out, headers, order, n), ret |-> NilErr]

Marshalled(rw, status, m, headers, order, n) ==
    IF m.err # NilErr THEN [w |-> rw, ret |-> m.err]
    ELSE [w |-> Respond(rw, status, m.out, headers, order, n), ret |-> NilErr]

WriteJSON(rw, status, v, headers, order, n) ==
    Marshalled(rw, status, Marshal(v), headers, order, n)

StatusBadRequest == 400

\* a faulty variant: the last status code given is used
ErrorResponse_LastStatus(err, status) ==
    [status |-> IF Len(status) > 0 THEN status[Len(status)] ELSE StatusBadRequest,
     data |-> JSONResponse(TRUE, err, NilVal),
     headers |-> <<>>]

\* the status code and the payload ErrorJSON hands to WriteJSON
ErrorResponse(err, status) ==
    [status |-> IF Len(status) > 0 THEN status[1] ELSE StatusBadRequest,
     data |-> JSONResponse(TRUE, err, NilVal),
     headers |-> <<>>]

WriteResponse(rw, c, n) == WriteJSON(rw, c.status, c.data, c.headers, <<>>, n)

ErrorJSON(rw, err, status, n) == WriteResponse(rw, ErrorResponse(err, status), n)


(***************************************************************************)
(* The inputs.                                                             *)
(***************************************************************************)
\* the longest body core
MaxBodyLen == 16

\* the most bytes of a response body a failing transport takes
MaxPartialWrite == 1

Body(pre, core, post, term) == [pre |-> pre, core |-> core, post |-> post, term |-> term]

ObjA1 == <<"{", "\"", "A", "\"", ":", "1", "}">>

ObjA1B2 == <<"{", "\"", "A", "\"", ":", "1", ",", "\"", "B", "\"", ":", "2", "}">>

ObjAx == <<"{", "\"", "A", "\"", ":", "\"", "x", "\"", "}">>

ObjAxB2 == <<"{", "\"", "A", "\"", ":", "\"", "x", "\"", ",", "\"", "B", "\"", ":", "2", "}">>

ObjLowerA == <<"{", "\"", "a", "\"", ":", "1", "2", "3", "4", "5", "}">>

ObjEmpty == <<"{", "}">>

Number12 == <<"1", "2">>

Space == <<" ">>

Garbage == <<"x">>

\* what a body starts with, and what may follow it
Heads == {<<>>, ObjA1, ObjA1B2, ObjAx, ObjAxB2, ObjLowerA, ObjEmpty, Number12, Space, Garbage}

Tails == {<<>>, ObjA1, Space, Garbage, Number12}

\* every prefix, up to MaxBodyLen bytes, of a head followed by a tail
Cores ==
    UNION {{SubSeq(h \o tl, 1, k) : k \in 0..Min(Len(h \o tl), MaxBodyLen)} :
           h \in Heads, tl \in Tails}

ReadErrors == {IoEOF, IoErrUnexpectedEOF, ErrConnReset, ErrWrappedEOFs}

\* bodies of a few bytes, and bodies longer than the default limit by their padding
Bodies ==
    {Body(0, c, 0, e) : c \in Cores, e \in ReadErrors}
    \cup {Body(DefaultMaxBytes, c, 0, IoEOF) : c \in {<<>>, ObjA1}}
    \cup {Body(0, c, DefaultMaxBytes, IoEOF) : c \in {ObjA1, ObjA1B2, Number12, Garbage}}

MixedCaseJSON ==
    <<"A", "p", "p", "l", "i", "c", "a", "t", "i", "o", "n", "/", "J", "S", "O", "N">>

TextPlain == <<"t", "e", "x", "t", "/", "p", "l", "a", "i", "n">>

JSONWithCharset ==
    <<"a", "p", "p", "l", "i", "c", "a", "t", "i", "o", "n", "/", "j", "s", "o", "n", ";", " ">>
    \o <<"c", "h", "a", "r", "s", "e", "t", "=", "u", "t", "f", "-", "8">>

\* the Content-Type header as Header.Get returns it; <<>> when it is absent
ContentTypes == {<<>>, ApplicationJSON, MixedCaseJSON, TextPlain, JSONWithCharset}

Requests == {[ContentType |-> ct, Body |-> b, wrapped |-> FALSE] : ct \in ContentTypes, b \in Bodies}

\* the caller's struct { A int }
ShapeA == <<Field(<<"A">>, "int")>>

\* a pointer to the struct, and the struct passed by value
Destinations == {Dest(TRUE, ShapeA), Dest(FALSE, ShapeA)}

MaxJSONSizes == {0 - 1, 0, 2, 7, 9, 10, 13}

Messages == {<<>>, <<"x">>, <<"\"">>, <<"<", "\\">>}

Payloads == {NilVal, Num(12), Str(<<"x", "\"">>), Bool(TRUE), Chan}

Envelopes == {JSONResponse(e, m, p) : e \in BOOLEAN, m \in Messages, p \in Payloads}

Statuses == {200, 202, 404, 500}

HeaderSets ==
    {("X-Trace" :> <<"1">>),
     ("Content-Type" :> <<"text/plain">>),
     ("content-type" :> <<"text/plain">>) @@ ("X-Trace" :> <<"1">>)}

\* the variadic headers parameter: none, one, or two header sets
HeaderArgs == {<<>>} \cup {<<h>> : h \in HeaderSets}
              \cup {<<("X-Trace" :> <<"1">>), ("X-Other" :> <<"2">>)>>}

\* the orders in which range may visit the keys of a header set
Orders(h) ==
    {o \in UNION {[1..Cardinality(DOMAIN h) -> DOMAIN h]} :
        \A i, j \in DOMAIN o : i # j => o[i] # o[j]}

NoArg ==
    [r |-> [ContentType |-> <<>>, Body |-> Body(0, <<>>, 0, IoEOF), wrapped |-> FALSE],
     data |-> NilVal, status |-> <<>>, headers |-> <<>>, err |-> <<>>, n |-> 0]

(***************************************************************************)
(* The state machine: a Tools value is configured, then one handler runs   *)
(* on a fresh request and ResponseWriter.                                  *)
(***************************************************************************)
Init ==
    /\ t \in [MaxJSONSize : MaxJSONSizes, AllowUnknownFields : BOOLEAN]
    /\ op = "none"
    /\ arg = NoArg
    /\ r = NoArg.r
    /\ data = NilVal
    /\ w = NewResponseWriter
    /\ ret = NilErr
    /\ dec = NewDecoder
    /\ first = NoAnswer
    /\ call = [status |-> 0, data |-> NilVal, headers |-> <<>>]

\* the handler has returned res
Returned(res) ==
    /\ r' = res.r
    /\ data' = res.data
    /\ ret' = res.ret
    /\ dec' = res.dec
    /\ first' = res.first

Responded(res) ==
    /\ w' = res.w
    /\ ret' = res.ret

CallReadJSON ==
    /\ op = "none"
    /\ \E req \in Requests, v \in Destinations :
          /\ op' = "ReadJSON"
          /\ arg' = [NoArg EXCEPT !.r = req, !.data = v]
          /\ Returned(ReadJSON(t, req, v))
    /\ UNCHANGED <<t, w, call>>

CallWriteJSON ==
    /\ op = "none"
    /\ \E status \in Statuses, v \in Envelopes, headers \in HeaderArgs :
       \E order \in (IF headers = <<>> THEN {<<>>} ELSE Orders(headers[1])) :
       \E n \in 0..MaxPartialWrite \cup {Len(Marshal(v).out)} :
          /\ op' = "WriteJSON"
          /\ arg' = [NoArg EXCEPT !.data = v, !.status = <<status>>,
                                  !.headers = headers, !.n = n]
          /\ data' = v
          /\ call' = [status |-> status, data |-> v, headers |-> headers]
          /\ Responded(WriteJSON(w, status, v, headers, order, n))
    /\ UNCHANGED <<t, r, dec, first>>

CallErrorJSON ==
    /\ op = "none"
    /\ \E err \in Messages, status \in {<<>>, <<404>>, <<500, 404>>} :
       \E n \in 0..MaxPartialWrite \cup {Len(Marshal(JSONResponse(TRUE, err, NilVal)).out)} :
          /\ op' = "ErrorJSON"
          /\ arg' = [NoArg EXCEPT !.err = err, !.status = status, !.n = n]
          /\ Responded(ErrorJSON(w, err, status, n))
          /\ call' = ErrorResponse(err, status)
    /\ UNCHANGED <<t, r, data, dec, first>>

Next == CallReadJSON \/ CallWriteJSON \/ CallErrorJSON

Spec == Init /\ [][Next]_vars


(***************************************************************************)
(* Properties of ReadJSON.  They are stated over the arguments of the call *)
(* (arg), the configuration (t) and what the call left behind.             *)
(***************************************************************************)
ReadDone == op = "ReadJSON"

\* the effective ceiling C
Ceiling == IF t.MaxJSONSize # 0 THEN t.MaxJSONSize ELSE 1048576

\* the length L of the request body
L == arg.r.Body.pre + Len(arg.r.Body.core) + arg.r.Body.post

\* the Content-Type header is absent or names JSON in any letter case
ContentTypeAccepted == arg.r.ContentType \in {<<>>, ApplicationJSON, MixedCaseJSON}

BodyTooLarge(c) == NewError("body must not be larger than %d bytes", <<>>, c)

\* the first n bytes of the request body, as a body of their own
FirstBytes(n) ==
    Body(Min(arg.r.Body.pre, Max(n, 0)),
         SubSeq(arg.r.Body.core, 1, Min(Len(arg.r.Body.core), n - arg.r.Body.pre)),
         Max(0, Min(arg.r.Body.post, n - arg.r.Body.pre - Len(arg.r.Body.core))),
         IoEOF)

\* the scanner, fed the bytes of b, neither finishes a value nor finds a syntax error
Unfinished(b) == ScanFrom(b, 1, ScanReset).kind = "exhausted"

\* C1 as claimed: whenever the body is longer than the ceiling C, ReadJSON fails with
\* "body must not be larger than C bytes", whatever the body holds.
C1_AlwaysBodyTooLarge ==
    (ReadDone /\ ContentTypeAccepted /\ Ceiling > 0 /\ L > Ceiling)
        => ret = BodyTooLarge(Ceiling)

\* C1 amended: a non-empty body longer than the ceiling C is never accepted, and it
\* fails with "body must not be larger than C bytes" exactly when its first C bytes
\* neither complete a first JSON value nor hold a syntax error.
C1_BodyTooLarge ==
    (ReadDone /\ ContentTypeAccepted /\ L > Ceiling /\ L > 0)
        => /\ ret # NilErr
           /\ ret = BodyTooLarge(Ceiling) <=> Unfinished(FirstBytes(Ceiling))

\* a body one byte longer than a ceiling of 10 whose first 10 bytes are an unfinished
\* object is refused as too large
C1_Witness ==
    /\ ReadDone /\ ContentTypeAccepted
    /\ t.MaxJSONSize = 10 /\ arg.r.Body.core = ObjLowerA /\ L = 11
    /\ ret = BodyTooLarge(10)

\* C2: a request whose Content-Type is present and, lower-cased, is not exactly
\* "application/json" gets the WrongContentType error; its body is not read and not
\* wrapped by the size limiter, and the destination is left as it was.
C2_WrongContentType ==
    (ReadDone /\ arg.r.ContentType \in {TextPlain, JSONWithCharset})
        => /\ ret = NewError("the Content-Type header is not application/json", <<>>, 0)
           /\ r = arg.r
           /\ ~r.wrapped
           /\ dec.calls = 0 /\ dec.at = 0
           /\ data = arg.data

\* a well-formed JSON body sent as "application/json; charset=utf-8" is refused unread
C2_Witness ==
    /\ ReadDone
    /\ arg.r.ContentType = JSONWithCharset
    /\ arg.r.Body.core = ObjA1 /\ arg.data.ptr
    /\ ret.text = "the Content-Type header is not application/json"
    /\ dec.at = 0


\* the body is core alone, read to a clean end of stream, within the ceiling, and the
\* Content-Type check passes
CleanBody ==
    /\ ReadDone /\ ContentTypeAccepted
    /\ arg.r.Body.pre = 0 /\ arg.r.Body.post = 0
    /\ arg.r.Body.term = IoEOF
    /\ L <= Ceiling

\* str, with a space before or after it or with none
Spaced(str) == {str, str \o Space, Space \o str}

\* bodies that hold exactly one valid JSON value
ValidValues == {ObjA1, ObjA1B2, ObjAx, ObjAxB2, ObjLowerA, ObjEmpty, Number12}

\* the valid values that fit struct { A int }, with the value of A each one carries
Fitting(allowUnknown) ==
    {<<ObjA1, 1>>, <<ObjLowerA, 12345>>, <<ObjEmpty, 0>>}
    \cup (IF allowUnknown THEN {<<ObjA1B2, 1>>} ELSE {})

\* C3 as claimed: a body holding exactly one valid JSON value, within the ceiling and
\* with an accepted Content-Type, is decoded without error whatever AllowUnknownFields.
C3_AnyValidValue ==
    (CleanBody /\ arg.data.ptr /\ \E v \in ValidValues : arg.r.Body.core \in Spaced(v))
        => ret = NilErr

\* C3 amended: such a body is decoded without error, and the destination holds the
\* decoded value, when the value fits the destination: an object whose members have
\* the types of the destination's fields and, unless AllowUnknownFields is set, name
\* no field the destination lacks, decoded into a valid pointer.
C3_FittingValueDecodes ==
    \A f \in Fitting(t.AllowUnknownFields) :
        (CleanBody /\ arg.data.ptr /\ arg.r.Body.core \in Spaced(f[1]))
            => /\ ret = NilErr
               /\ data = [arg.data EXCEPT !.val = <<Num(f[2])>>]

\* {"a":12345} followed by a space, sent as Application/JSON, sets A to 12345
C3_Witness ==
    /\ CleanBody /\ arg.data.ptr
    /\ arg.r.ContentType = MixedCaseJSON
    /\ arg.r.Body.core = ObjLowerA \o Space
    /\ ret = NilErr
    /\ data.val = <<Num(12345)>>

\* the first value was decoded and stored without error, and the second Decode made
FirstDecoded == ReadDone /\ dec.calls = 2 /\ first.err = NilErr

\* the stream ends, with io.EOF, right after the first value
ImmediateEOF == first.scanp = L /\ arg.r.Body.term = IoEOF

\* after the first value the body holds only whitespace, and then ends with io.EOF
\* within the ceiling
OnlySpaceThenEOF ==
    /\ \A i \in 1..Len(arg.r.Body.core) :
          i + arg.r.Body.pre > first.scanp => arg.r.Body.core[i] = " "
    /\ arg.r.Body.term = IoEOF
    /\ L <= Ceiling

\* C4 as claimed: once the first value is decoded, anything but an immediate end of
\* stream makes ReadJSON fail with MultipleValues.
C4_AnyRestIsMultiple ==
    (FirstDecoded /\ ~ImmediateEOF)
        => ret = NewError("body must only contain a single JSON value", <<>>, 0)

\* C4 amended: once the first value is decoded, ReadJSON returns nil when the second
\* Decode reports io.EOF, which it does exactly when the rest of the stream is
\* whitespace only followed by the end of the stream; otherwise (a second value,
\* trailing garbage, a read error) it fails with MultipleValues.
C4_SingleValue ==
    FirstDecoded
        => /\ ret \in {NilErr, NewError("body must only contain a single JSON value", <<>>, 0)}
           /\ ret = NilErr <=> dec.err = IoEOF
           /\ ret = NilErr <=> OnlySpaceThenEOF

\* {"A":1}{"A":1}: the first value alone is well-formed, the body is refused
C4_Witness ==
    /\ FirstDecoded /\ CleanBody
    /\ arg.r.Body.core = ObjA1 \o ObjA1
    /\ data.val = <<Num(1)>>
    /\ ret.text = "body must only contain a single JSON value"

\* C5: {"A":1,"B":2} into struct { A int }: with AllowUnknownFields=false ReadJSON
\* fails with UnknownField and the message holds the name "B"; with
\* AllowUnknownFields=true it succeeds and B is ignored.
C5_UnknownField ==
    (CleanBody /\ arg.data.ptr /\ arg.r.Body.core \in Spaced(ObjA1B2))
        => IF t.AllowUnknownFields
           THEN ret = NilErr /\ data.val = <<Num(1)>>
           ELSE ret = NewError("body contains unknown key %s", <<"\"", "B", "\"">>, 0)

C5_Witness ==
    /\ CleanBody /\ arg.data.ptr /\ ~t.AllowUnknownFields
    /\ arg.r.Body.core = ObjA1B2
    /\ ret.text = "body contains unknown key %s"
    /\ ret.name = <<"\"", "B", "\"">>

\* the proper, non-empty prefixes of the objects: bodies that end inside a value
TruncatedObjects ==
    UNION {{SubSeq(v, 1, k) : k \in 1..(Len(v) - 1)} : v \in ValidValues \ {Number12}}

\* C6: a body with no bytes fails with "body must not be empty"; a body that ends
\* inside an unfinished JSON value, within the ceiling, fails with "body contains
\* badly-formed JSON" without an offset; neither is reported as the other.
C6_EmptyVersusTruncated ==
    /\ (ReadDone /\ ContentTypeAccepted /\ arg.r.Body.term = IoEOF /\ L = 0)
          => ret = NewError("body must not be empty", <<>>, 0)
    /\ (CleanBody /\ arg.r.Body.core \in TruncatedObjects)
          => ret = NewError("body contains badly-formed JSON", <<>>, 0)

\* the body {"A": is reported as truncated
C6_Witness ==
    /\ CleanBody
    /\ arg.r.Body.core = SubSeq(ObjA1, 1, 5)
    /\ ret.text = "body contains badly-formed JSON"

\* C7: a failure of the first Decode is mapped to one category, the first that
\* matches in the order MalformedSyntax, TruncatedInput, TypeMismatch, EmptyBody,
\* UnknownField, BodyTooLarge, InvalidDestination, Unclassified; no second Decode is
\* made, and an unclassified error is returned as it is.
C7_OneCategory ==
    (ReadDone /\ first.err # NilErr)
        => /\ dec.calls = 1
           /\ ret =
                IF first.err.type = "SyntaxError"
                THEN NewError("body contains badly-formed JSON (at character %d)", <<>>,
                              first.err.num)
                ELSE IF "io.ErrUnexpectedEOF" \in first.err.is
                THEN NewError("body contains badly-formed JSON", <<>>, 0)
                ELSE IF first.err.type = "UnmarshalTypeError"
                THEN NewError("body contains incorrect JSON type for field %q at offset %d",
                              <<"\"">> \o first.err.name \o <<"\"">>, first.err.num)
                ELSE IF "io.EOF" \in first.err.is
                THEN NewError("body must not be empty", <<>>, 0)
                ELSE IF first.err.text = "json: unknown field "
                THEN NewError("body contains unknown key %s", first.err.name, 0)
                ELSE IF first.err.text = "http: request body too large"
                THEN NewError("body must not be larger than %d bytes", <<>>, Ceiling)
                ELSE IF first.err.type = "InvalidUnmarshalError"
                THEN NewError("error unmarshalling json: %s", <<>>, 0)
                ELSE first.err

\* a read error that is both io.ErrUnexpectedEOF and io.EOF is reported as truncated
C7_Witness ==
    /\ ReadDone /\ dec.calls = 1
    /\ first.err = ErrWrappedEOFs
    /\ ret.text = "body contains badly-formed JSON"

(***************************************************************************)
(* Properties of WriteJSON and ErrorJSON.                                  *)
(***************************************************************************)
WriteDone == op = "WriteJSON"

\* json.Marshal accepts the value
Serializable == arg.data.Data.t # "chan"

\* the header set WriteJSON honours: the first one supplied
H == IF arg.headers = <<>> THEN NoHeader ELSE arg.headers[1]

NumH == Cardinality(DOMAIN H)

\* C8: WriteJSON copies the pairs of the first header set, then sets Content-Type to
\* "application/json", then writes the status, then writes the serialization of the
\* value; the value is not modified and the body deserializes back to it.
C8_WriteOrder ==
    (WriteDone /\ Serializable)
        => /\ Len(w.log) = NumH + 3
           /\ \A i \in 1..NumH : w.log[i][1] = "Header"
           /\ {w.log[i][2] : i \in 1..NumH} = DOMAIN H
           /\ w.log[NumH + 1] = <<"Set", "Content-Type">>
           /\ w.log[NumH + 2] = <<"WriteHeader", "">>
           /\ w.log[NumH + 3] = <<"Write", "">>
           /\ w.status = arg.status[1]
           /\ DOMAIN w.sent = DOMAIN H \cup {"Content-Type"}
           /\ \A k \in DOMAIN H \ {"Content-Type"} : w.sent[k] = H[k]
           /\ w.sent["Content-Type"] = <<"application/json">>
           /\ readValue(Body(0, w.handed, 0, IoEOF), 0).n = Len(w.handed)
           /\ Unmarshal(w.handed, 0, Dest(TRUE, JSONResponseShape), TRUE)
                = [v |-> [Dest(TRUE, JSONResponseShape) EXCEPT
                             !.val = <<Bool(arg.data.Error), Str(arg.data.Message),
                                       arg.data.Data>>],
                   err |-> NilErr]
           /\ arg.n = Len(w.handed) => w.body = w.handed
           /\ data = arg.data

\* a message holding a quote, with a header set that names Content-Type itself
C8_Witness ==
    /\ WriteDone /\ Serializable
    /\ arg.headers = <<("Content-Type" :> <<"text/plain">>)>>
    /\ arg.data = JSONResponse(TRUE, <<"\"">>, Str(<<"x", "\"">>))
    /\ w.status = 404
    /\ w.body = w.handed /\ w.body # <<>>

\* the status code ErrorJSON is to use
ErrorStatus == IF arg.status = <<>> THEN 400 ELSE arg.status[1]

\* C9: ErrorJSON calls WriteJSON with an envelope whose error flag is true, whose
\* message is the error's text and whose data is absent, with status 400 when no
\* status code is given and the first given one otherwise, and returns what
\* WriteJSON returns.
C9_ErrorJSONDelegates ==
    op = "ErrorJSON"
        => /\ call = [status |-> ErrorStatus,
                      data |-> [Error |-> TRUE, Message |-> arg.err, Data |-> NilVal],
                      headers |-> <<>>]
           /\ w.status = ErrorStatus
           /\ [w |-> w, ret |-> ret]
                = WriteJSON(NewResponseWriter, ErrorStatus,
                            [Error |-> TRUE, Message |-> arg.err, Data |-> NilVal],
                            <<>>, <<>>, arg.n)

\* two status codes given: the first one is used
C9_Witness ==
    /\ op = "ErrorJSON"
    /\ arg.status = <<500, 404>> /\ arg.err = <<"x">>
    /\ w.status = 500
    /\ ret = NilErr

\* C10: when serialization fails WriteJSON returns that error and leaves the response
\* untouched (no header, no status, no body byte); otherwise it returns nil, also
\* when the transport does not take the whole body.
C10_SerializationFailure ==
    WriteDone
        => IF arg.data.Data.t = "chan"
           THEN ret = ErrUnsupportedType /\ w = NewResponseWriter
           ELSE ret = NilErr

\* a value json.Marshal refuses, with a header set supplied
C10_Witness ==
    /\ WriteDone
    /\ arg.data.Data = Chan /\ arg.headers # <<>>
    /\ ret = ErrUnsupportedType
    /\ w.log = <<>>

=============================================================================
